---- MODULE Spec2Model ----
(***************************************************************************)
(* Nurse rostering core (model.py): solve_nurse_rostering builds a CP-SAT  *)
(* model (boolean decision variables, linear hard constraints, a weighted  *)
(* objective), hands it once to the external solver, decodes the answer    *)
(* into an N x D schedule and audits it with validate_schedule.            *)
(*                                                                         *)
(* Python lists are modelled as sequences; list index i is sequence        *)
(* position i+1, and nurse / day numbers keep the source's 0-based values. *)
(***************************************************************************)
EXTENDS Integers, Sequences, FiniteSets, TLC

\* ---------------------------------------------------------------- bounds
MaxNurses == 2
MaxDays == 3
MaxValNurses == 3
MaxValCells == 6

None == "None"
OFF == "OFF"

\* ------------------------------------------------------- small utilities
Range(k) == 0 .. (k - 1)

At(list, i) == list[i + 1]

RECURSIVE SumSeq(_, _)
SumSeq(seq, i) == IF i > Len(seq) THEN 0 ELSE seq[i] + SumSeq(seq, i + 1)

Sum(seq) == SumSeq(seq, 1)

RECURSIVE Concat(_, _)
Concat(seqs, i) == IF i > Len(seqs) THEN <<>> ELSE seqs[i] \o Concat(seqs, i + 1)

Flatten(seqs) == Concat(seqs, 1)

InSeq(e, seq) == \E i \in 1 .. Len(seq) : seq[i] = e

MaxOf(S) == CHOOSE m \in S : \A k \in S : k <= m

MinOf(S) == CHOOSE m \in S : \A k \in S : m <= k

\* ------------------------------------------------------ CP model pieces
XVar(n, d, s) == <<"x", n, d, s>>

WorkVar(n, d) == <<"work", n, d>>

PenVar(n, d) == <<"pref_pen", n, d>>

TotalWorkVar(n) == <<"total_work", n>>

TotalNightsVar(n) == <<"total_nights", n>>

GlobalVar(name) == <<name>>

\* model.NewBoolVar / model.NewIntVar: a variable with its domain lo..hi.
NewVar(v, lo, hi) == [v |-> v, lo |-> lo, hi |-> hi]

\* model.Add(sum(coef * var) op rhs): a linear constraint.
Lin(terms, op, rhs) == [kind |-> "lin", terms |-> terms, op |-> op, rhs |-> rhs]

\* model.AddMaxEquality / model.AddMinEquality(target, list).
Ext(kind, target, of) == [kind |-> kind, target |-> target, of |-> of]

\* The variables a constraint mentions.
VarsOf(c) ==
    IF c.kind = "lin"
    THEN {c.terms[i][2] : i \in 1 .. Len(c.terms)}
    ELSE {c.target} \cup {c.of[i] : i \in 1 .. Len(c.of)}

\* Nested "for a in range(A): for b in range(B)" as one sequence, a outermost.
Loop2(A, B, F(_, _)) == [i \in 1 .. A * B |-> F((i - 1) \div B, (i - 1) % B)]

Ones(k, V(_)) == [i \in 1 .. k |-> <<1, V(i - 1)>>]

\* lines 72-76: x[(n, d, s)] for every nurse, day and shift.
DecisionVars(N, D, shifts) ==
    Flatten(Loop2(N, D, LAMBDA n, d :
        [k \in 1 .. Len(shifts) |-> NewVar(XVar(n, d, shifts[k]), 0, 1)]))

\* lines 79-83: work[(n, d)] == sum of x[(n, d, s)] over the shifts.
WorkVars(N, D) == Loop2(N, D, LAMBDA n, d : NewVar(WorkVar(n, d), 0, 1))

WorkDefinition(N, D, shifts) ==
    Loop2(N, D, LAMBDA n, d :
        Lin(<<<<1, WorkVar(n, d)>>>>
              \o [k \in 1 .. Len(shifts) |-> <<-1, XVar(n, d, shifts[k])>>],
            "==", 0))

\* lines 88-90: at most one shift per day per nurse.
SingleShift(N, D, shifts) ==
    Loop2(N, D, LAMBDA n, d :
        Lin([k \in 1 .. Len(shifts) |-> <<1, XVar(n, d, shifts[k])>>], "<=", 1))

\* Variant: coverage stated as "at least the demand".
CoverageAtLeast(N, D, shifts, demand) ==
    Loop2(D, Len(shifts), LAMBDA d, k :
        Lin([i \in 1 .. N |-> <<-1, XVar(i - 1, d, shifts[k + 1])>>],
            "<=", 0 - At(demand, d)[shifts[k + 1]]))

\* Variant: coverage stated as "at most the demand".
CoverageAtMost(N, D, shifts, demand) ==
    Loop2(D, Len(shifts), LAMBDA d, k :
        Lin(Ones(N, LAMBDA n : XVar(n, d, shifts[k + 1])),
            "<=", At(demand, d)[shifts[k + 1]]))

\* lines 93-95: exact coverage of the demand per day per shift.
Coverage(N, D, shifts, demand) ==
    Loop2(D, Len(shifts), LAMBDA d, k :
        Lin(Ones(N, LAMBDA n : XVar(n, d, shifts[k + 1])),
            "==", At(demand, d)[shifts[k + 1]]))

\* lines 98-100: minimum days off per nurse over the horizon.
MinDaysOff(N, D, config) ==
    IF config.min_days_off > 0
    THEN [i \in 1 .. N |->
            Lin(Ones(D, LAMBDA d : WorkVar(i - 1, d)), "<=", D - config.min_days_off)]
    ELSE <<>>

\* lines 103-107: sliding windows of L+1 days hold at most L working days.
\* (the cap is always an integer here, so "L is not None" is true.)
ConsecEnabled(L, D) == L > 0 /\ D >= L + 1

\* Variant: the window starts stop one short, so the last window is unchecked.
MaxConsecutiveLastWindowMissing(N, D, config) ==
    LET L == config.max_consecutive_work_days IN
    IF ConsecEnabled(L, D)
    THEN Loop2(N, D - (L + 1), LAMBDA n, start :
            Lin(Ones(L + 1, LAMBDA k : WorkVar(n, start + k)), "<=", L))
    ELSE <<>>

\* Variant: windows of L days instead of L+1, which bound nothing.
MaxConsecutiveShortWindow(N, D, config) ==
    LET L == config.max_consecutive_work_days IN
    IF ConsecEnabled(L, D)
    THEN Loop2(N, D - (L + 1) + 1, LAMBDA n, start :
            Lin(Ones(L, LAMBDA k : WorkVar(n, start + k)), "<=", L))
    ELSE <<>>

MaxConsecutive(N, D, config) ==
    LET L == config.max_consecutive_work_days IN
    IF ConsecEnabled(L, D)
    THEN Loop2(N, D - (L + 1) + 1, LAMBDA n, start :
            Lin(Ones(L + 1, LAMBDA k : WorkVar(n, start + k)), "<=", L))
    ELSE <<>>

\* Variant: a night only forbids the morning shift of the next day.
RestAfterNightNoMorning(N, D, config) ==
    IF config.rest_after_night /\ D >= 2
    THEN Loop2(N, D - 1, LAMBDA n, d :
            Lin(<<<<1, XVar(n, d, "N")>>, <<1, XVar(n, d + 1, "M")>>>>, "<=", 1))
    ELSE <<>>

\* lines 110-113: a night on day d forces OFF on day d+1.
RestAfterNight(N, D, config) ==
    IF config.rest_after_night /\ D >= 2
    THEN Loop2(N, D - 1, LAMBDA n, d :
            Lin(<<<<1, XVar(n, d, "N")>>, <<1, WorkVar(n, d + 1)>>>>, "<=", 1))
    ELSE <<>>

\* lines 116-117: cap on nights per nurse.
NightCap(N, D, config) ==
    [i \in 1 .. N |->
        Lin(Ones(D, LAMBDA d : XVar(i - 1, d, "N")), "<=", config.max_nights_per_nurse)]

\* lines 78-117 in the order the code adds them.
HardConstraints(N, D, demand, config) ==
    LET shifts == config.shifts IN
    WorkDefinition(N, D, shifts) \o SingleShift(N, D, shifts)
      \o Coverage(N, D, shifts, demand) \o MinDaysOff(N, D, config)
      \o MaxConsecutive(N, D, config) \o RestAfterNight(N, D, config)
      \o NightCap(N, D, config)

\* ------------------------------------------------- soft terms, objective
\* line 123: entries keyed outside the grid are skipped.
PrefInRange(e, N, D) == 0 <= e.n /\ e.n < N /\ 0 <= e.d /\ e.d < D

\* line 130: the shift must be a configured one or OFF.
PrefShiftKnown(e, shifts) == InSeq(e.shift, shifts) \/ e.shift = OFF

\* line 133: a penalty variable exists for every entry that passed both guards.
PrefHasVar(e, N, D, shifts) == PrefInRange(e, N, D) /\ PrefShiftKnown(e, shifts)

\* lines 135-151: entries whose kind is neither prefer nor avoid are dropped.
PrefCounted(e, N, D, shifts) ==
    PrefHasVar(e, N, D, shifts) /\ e.type \in {"prefer", "avoid"}

\* Variant: "avoid OFF" penalises working instead of resting.
PenaltyConstraintAvoidOffAsWork(e) ==
    IF e.type = "prefer"
    THEN IF e.shift = OFF
         THEN Lin(<<<<1, PenVar(e.n, e.d)>>, <<-1, WorkVar(e.n, e.d)>>>>, "==", 0)
         ELSE Lin(<<<<1, PenVar(e.n, e.d)>>, <<1, XVar(e.n, e.d, e.shift)>>>>, "==", 1)
    ELSE IF e.shift = OFF
         THEN Lin(<<<<1, PenVar(e.n, e.d)>>, <<-1, WorkVar(e.n, e.d)>>>>, "==", 0)
         ELSE Lin(<<<<1, PenVar(e.n, e.d)>>, <<-1, XVar(e.n, e.d, e.shift)>>>>, "==", 0)

\* lines 135-149: the constraint tying the penalty to the assignment.
PenaltyConstraint(e) ==
    IF e.type = "prefer"
    THEN IF e.shift = OFF
         THEN Lin(<<<<1, PenVar(e.n, e.d)>>, <<-1, WorkVar(e.n, e.d)>>>>, "==", 0)
         ELSE Lin(<<<<1, PenVar(e.n, e.d)>>, <<1, XVar(e.n, e.d, e.shift)>>>>, "==", 1)
    ELSE IF e.shift = OFF
         THEN Lin(<<<<1, PenVar(e.n, e.d)>>, <<1, WorkVar(e.n, e.d)>>>>, "==", 1)
         ELSE Lin(<<<<1, PenVar(e.n, e.d)>>, <<-1, XVar(e.n, e.d, e.shift)>>>>, "==", 0)

PenaltyVars(prefs, N, D, shifts) ==
    LET kept == SelectSeq(prefs, LAMBDA e : PrefHasVar(e, N, D, shifts)) IN
    [i \in 1 .. Len(kept) |-> NewVar(PenVar(kept[i].n, kept[i].d), 0, 1)]

PenaltyConstraints(prefs, N, D, shifts) ==
    LET kept == SelectSeq(prefs, LAMBDA e : PrefCounted(e, N, D, shifts)) IN
    [i \in 1 .. Len(kept) |-> PenaltyConstraint(kept[i])]

\* line 153: preference_penalties, the variables that enter the objective.
PreferencePenalties(prefs, N, D, shifts) ==
    LET kept == SelectSeq(prefs, LAMBDA e : PrefCounted(e, N, D, shifts)) IN
    [i \in 1 .. Len(kept) |-> PenVar(kept[i].n, kept[i].d)]

\* lines 159-180: totals per nurse, their max and min, and the two spreads.
BalanceVars(N, D) ==
    Flatten([i \in 1 .. N |->
        <<NewVar(TotalWorkVar(i - 1), 0, D), NewVar(TotalNightsVar(i - 1), 0, D)>>])
      \o <<NewVar(GlobalVar("max_work"), 0, D), NewVar(GlobalVar("min_work"), 0, D),
           NewVar(GlobalVar("work_spread"), 0, D),
           NewVar(GlobalVar("max_nights"), 0, D), NewVar(GlobalVar("min_nights"), 0, D),
           NewVar(GlobalVar("night_spread"), 0, D)>>

Spread(spread, hi, lo) ==
    Lin(<<<<1, GlobalVar(spread)>>, <<-1, GlobalVar(hi)>>, <<1, GlobalVar(lo)>>>>, "==", 0)

BalanceConstraints(N, D) ==
    Flatten([i \in 1 .. N |->
        <<Lin(<<<<1, TotalWorkVar(i - 1)>>>>
                \o [k \in 1 .. D |-> <<-1, WorkVar(i - 1, k - 1)>>], "==", 0),
          Lin(<<<<1, TotalNightsVar(i - 1)>>>>
                \o [k \in 1 .. D |-> <<-1, XVar(i - 1, k - 1, "N")>>], "==", 0)>>])
      \o <<Ext("max", GlobalVar("max_work"), [i \in 1 .. N |-> TotalWorkVar(i - 1)]),
           Ext("min", GlobalVar("min_work"), [i \in 1 .. N |-> TotalWorkVar(i - 1)]),
           Spread("work_spread", "max_work", "min_work"),
           Ext("max", GlobalVar("max_nights"), [i \in 1 .. N |-> TotalNightsVar(i - 1)]),
           Ext("min", GlobalVar("min_nights"), [i \in 1 .. N |-> TotalNightsVar(i - 1)]),
           Spread("night_spread", "max_nights", "min_nights")>>

\* lines 183-189: the linear expression handed to model.Minimize.
Objective(prefs, N, D, config) ==
    LET pens == PreferencePenalties(prefs, N, D, config.shifts) IN
    (IF Len(pens) > 0
     THEN [i \in 1 .. Len(pens) |-> <<config.w_preference, pens[i]>>]
     ELSE <<>>)
      \o <<<<config.w_balance, GlobalVar("work_spread")>>,
           <<config.w_night_balance, GlobalVar("night_spread")>>>>

\* lines 69-189: the CpModel as built for a well-formed request.
BuildModel(N, D, demand, prefs, config) ==
    LET shifts == config.shifts IN
    [vars |-> DecisionVars(N, D, shifts) \o WorkVars(N, D)
                \o PenaltyVars(prefs, N, D, shifts) \o BalanceVars(N, D),
     cons |-> HardConstraints(N, D, demand, config)
                \o PenaltyConstraints(prefs, N, D, shifts)
                \o BalanceConstraints(N, D),
     obj |-> Objective(prefs, N, D, config)]

\* ------------------------------------------------------ input checking
\* Variant: only a table that is too short is refused.
WrongLengthShortOnly(N, D, demand) == Len(demand) < D

\* line 62
WrongLength(N, D, demand) == Len(demand) # D

\* lines 64-67
MissingEntry(D, demand, shifts) ==
    \E d \in Range(D) : \E k \in 1 .. Len(shifts) : shifts[k] \notin DOMAIN At(demand, d)

\* lines 62-67: the ValueError raised, or None when the input passes.
InputError(N, D, demand, config) ==
    IF WrongLength(N, D, demand) THEN "ValueError: demand must have length num_days"
    ELSE IF MissingEntry(D, demand, config.shifts) THEN "ValueError: demand missing shift"
    ELSE None

\* ------------------------------------------------ evaluating constraints
LinValue(terms, val) == Sum([i \in 1 .. Len(terms) |-> terms[i][1] * val[terms[i][2]]])

Holds(c, val) ==
    CASE c.kind = "lin" ->
           IF c.op = "==" THEN LinValue(c.terms, val) = c.rhs
           ELSE LinValue(c.terms, val) <= c.rhs
      [] c.kind = "max" ->
           val[c.target] = MaxOf({val[c.of[i]] : i \in 1 .. Len(c.of)})
      [] c.kind = "min" ->
           val[c.target] = MinOf({val[c.of[i]] : i \in 1 .. Len(c.of)})

\* Every constraint of the sequence holds under a total assignment.
Satisfies(cons, val) == \A i \in 1 .. Len(cons) : Holds(cons[i], val)

\* --------------------------------------------------- validate_schedule
Cell(schedule, n, d) == At(At(schedule, n), d)

\* lines 267-268
Works(schedule, n, d) == IF Cell(schedule, n, d) # OFF THEN 1 ELSE 0

\* lines 244-245
RowsOf(schedule) == Len(schedule)

ColsOf(schedule) == IF Len(schedule) > 0 THEN Len(schedule[1]) ELSE 0

\* lines 250-254
SymbolViolations(schedule, shifts) ==
    LET N == RowsOf(schedule)
        D == ColsOf(schedule)
        all == Loop2(N, D, LAMBDA n, d :
                 [kind |-> "SYMBOL", nurse |-> n, day |-> d, value |-> Cell(schedule, n, d)])
    IN SelectSeq(all, LAMBDA v : ~(InSeq(v.value, shifts) \/ v.value = OFF))

\* lines 258-261
CountOf(schedule, d, s) ==
    Cardinality({n \in Range(RowsOf(schedule)) : Cell(schedule, n, d) = s})

\* lines 257-264
CoverViolations(schedule, demand, shifts) ==
    LET D == ColsOf(schedule)
        all == Loop2(D, Len(shifts), LAMBDA d, k :
                 [kind |-> "COVER", day |-> d, shift |-> shifts[k + 1],
                  have |-> CountOf(schedule, d, shifts[k + 1]),
                  need |-> At(demand, d)[shifts[k + 1]]])
    IN SelectSeq(all, LAMBDA v : v.have # v.need)

\* lines 271-276
OffViolations(schedule, config) ==
    LET N == RowsOf(schedule)
        D == ColsOf(schedule)
        all == [i \in 1 .. N |->
                 [kind |-> "OFF", nurse |-> i - 1,
                  off |-> D - Sum([k \in 1 .. D |-> Works(schedule, i - 1, k - 1)])]]
    IN IF config.min_days_off > 0
       THEN SelectSeq(all, LAMBDA v : v.off < config.min_days_off)
       ELSE <<>>

\* Variant: the scan reports a breach and goes on instead of stopping.
RECURSIVE ConsecScanNoBreak(_, _, _, _, _)
ConsecScanNoBreak(schedule, n, d, consec, L) ==
    IF d >= ColsOf(schedule) THEN <<>>
    ELSE IF Works(schedule, n, d) = 1
         THEN IF consec + 1 > L
              THEN <<[kind |-> "CONSEC", nurse |-> n, day |-> d]>>
                     \o ConsecScanNoBreak(schedule, n, d + 1, consec + 1, L)
              ELSE ConsecScanNoBreak(schedule, n, d + 1, consec + 1, L)
         ELSE ConsecScanNoBreak(schedule, n, d + 1, 0, L)

\* lines 282-290: one nurse's scan, stopping at the first breach.
RECURSIVE ConsecScan(_, _, _, _, _)
ConsecScan(schedule, n, d, consec, L) ==
    IF d >= ColsOf(schedule) THEN <<>>
    ELSE IF Works(schedule, n, d) = 1
         THEN IF consec + 1 > L
              THEN <<[kind |-> "CONSEC", nurse |-> n, day |-> d]>>
              ELSE ConsecScan(schedule, n, d + 1, consec + 1, L)
         ELSE ConsecScan(schedule, n, d + 1, 0, L)

\* lines 279-290
ConsecViolations(schedule, config) ==
    LET L == config.max_consecutive_work_days IN
    IF ConsecEnabled(L, ColsOf(schedule))
    THEN Flatten([i \in 1 .. RowsOf(schedule) |-> ConsecScan(schedule, i - 1, 0, 0, L)])
    ELSE <<>>

\* Variant: only a morning after a night is reported.
RestViolationsMorningOnly(schedule, config) ==
    LET N == RowsOf(schedule)
        D == ColsOf(schedule)
    IN IF config.rest_after_night /\ D >= 2
       THEN SelectSeq(
              Loop2(N, D - 1, LAMBDA n, d :
                 [kind |-> "REST", nurse |-> n, day |-> d,
                  today |-> Cell(schedule, n, d), next |-> Cell(schedule, n, d + 1)]),
              LAMBDA v : v.today = "N" /\ v.next = "M")
       ELSE <<>>

\* lines 293-297
RestViolations(schedule, config) ==
    LET N == RowsOf(schedule)
        D == ColsOf(schedule)
    IN IF config.rest_after_night /\ D >= 2
       THEN SelectSeq(
              Loop2(N, D - 1, LAMBDA n, d :
                 [kind |-> "REST", nurse |-> n, day |-> d,
                  today |-> Cell(schedule, n, d), next |-> Cell(schedule, n, d + 1)]),
              LAMBDA v : v.today = "N" /\ v.next # OFF)
       ELSE <<>>

\* lines 300-303
NightsOf(schedule, n) ==
    Cardinality({d \in Range(ColsOf(schedule)) : Cell(schedule, n, d) = "N"})

NightViolations(schedule, config) ==
    SelectSeq([i \in 1 .. RowsOf(schedule) |->
                 [kind |-> "NIGHTS", nurse |-> i - 1, nights |-> NightsOf(schedule, i - 1)]],
              LAMBDA v : v.nights > config.max_nights_per_nurse)

\* lines 237-305
validate_schedule(schedule, demand, config) ==
    SymbolViolations(schedule, config.shifts)
      \o CoverViolations(schedule, demand, config.shifts)
      \o OffViolations(schedule, config)
      \o ConsecViolations(schedule, config)
      \o RestViolations(schedule, config)
      \o NightViolations(schedule, config)

\* ------------------------------------------------------- decoding, result
\* lines 207-211: the first configured shift whose variable is 1, else OFF.
RECURSIVE AssignedFrom(_, _, _, _, _)
AssignedFrom(value, n, d, shifts, k) ==
    IF k > Len(shifts) THEN OFF
    ELSE IF value[XVar(n, d, shifts[k])] = 1 THEN shifts[k]
    ELSE AssignedFrom(value, n, d, shifts, k + 1)

\* lines 204-212
Decode(value, N, D, shifts) ==
    [i \in 1 .. N |-> [j \in 1 .. D |-> AssignedFrom(value, i - 1, j - 1, shifts, 1)]]

\* line 198
IsFeasible(st) == st \in {"OPTIMAL", "FEASIBLE"}

\* solver.ObjectiveValue(): the objective expression at the returned values.
ObjectiveValue(obj, value) == LinValue(obj, value)

\* Variant: the lack of a solution is reported as an entry of the violation list.
SolveResultInfeasibleAsViolation(st, value, obj, N, D, dem, config) ==
    IF IsFeasible(st)
    THEN LET schedule == Decode(value, N, D, config.shifts) IN
         [feasible |-> TRUE,
          schedule |-> schedule,
          objective_value |-> ObjectiveValue(obj, value),
          stats |-> [status |-> st],
          violations |-> validate_schedule(schedule, dem, config)]
    ELSE [feasible |-> FALSE,
          schedule |-> None,
          objective_value |-> None,
          stats |-> [status |-> st],
          violations |-> <<[kind |-> "INFEASIBLE"]>>]

\* lines 198-234
SolveResult(st, value, obj, N, D, dem, config) ==
    IF IsFeasible(st)
    THEN LET schedule == Decode(value, N, D, config.shifts) IN
         [feasible |-> TRUE,
          schedule |-> schedule,
          objective_value |-> ObjectiveValue(obj, value),
          stats |-> [status |-> st],
          violations |-> validate_schedule(schedule, dem, config)]
    ELSE [feasible |-> FALSE,
          schedule |-> None,
          objective_value |-> None,
          stats |-> [status |-> st],
          violations |-> <<>>]

\* ------------------------------------------------------- solving oracle
\* The order in which the oracle's search fixes the variables, in blocks
\* fixed together: day by day and nurse by nurse the cell's x variables with
\* its work variable, then each remaining variable in creation order.
SearchOrder(N, D, shifts, mvars) ==
    LET dom == [v \in {mvars[i].v : i \in 1 .. Len(mvars)} |->
                  LET i == CHOOSE j \in 1 .. Len(mvars) : mvars[j].v = v IN mvars[i]]
        cells == Loop2(D, N, LAMBDA d, n :
                    [k \in 1 .. Len(shifts) |-> dom[XVar(n, d, shifts[k])]]
                      \o <<dom[WorkVar(n, d)]>>)
        others == SelectSeq(mvars, LAMBDA m : m.v[1] \notin {"x", "work"})
    IN cells \o [i \in 1 .. Len(others) |-> <<others[i]>>]

BlockVars(block) == {block[i].v : i \in 1 .. Len(block)}

\* Every way to give the variables of a block values of their domains.
BlockValues(block) ==
    {f \in [BlockVars(block) -> block[1].lo .. block[1].hi] :
        \A i \in 1 .. Len(block) : block[i].lo <= f[block[i].v] /\ f[block[i].v] <= block[i].hi}

\* The search agenda: each block with the constraints that become decidable
\* once it has values (those mentioning one of its variables and otherwise
\* only variables of earlier blocks).
Agenda(order, cons) ==
    [i \in 1 .. Len(order) |->
        LET here == BlockVars(order[i])
            upto == UNION {BlockVars(order[j]) : j \in 1 .. i}
        IN [block |-> order[i],
            checks |-> SelectSeq(cons, LAMBDA c :
                          VarsOf(c) \cap here # {} /\ VarsOf(c) \subseteq upto)]]

\* ------------------------------------------------------------- requests
DefaultShifts == <<"M", "A", "N">>

Config(L, rest, minOff, maxNights) ==
    [shifts |-> DefaultShifts,
     min_days_off |-> minOff,
     max_consecutive_work_days |-> L,
     max_nights_per_nurse |-> maxNights,
     rest_after_night |-> rest,
     w_preference |-> 10,
     w_balance |-> 3,
     w_night_balance |-> 2]

Configs ==
    {Config(L, rest, mm[1], mm[2]) :
        L \in {0, 1, 2}, rest \in BOOLEAN, mm \in {<<1, 3>>, <<0, 1>>}}

Day(m, a, n) == [M |-> m, A |-> a, N |-> n]

DayDemands == {Day(0, 0, 1), Day(1, 0, 1), Day(1, 1, 0), Day(2, 2, 1)}

\* A day whose dict lacks the entry for shift A.
ShortDay == [M |-> 1, N |-> 1]

Demands(D) ==
    {[d \in 1 .. D |-> IF d = 1 THEN first ELSE rest] :
        first \in DayDemands, rest \in {Day(0, 0, 1), Day(1, 1, 0)}}
    \cup {[d \in 1 .. len |-> Day(1, 0, 1)] : len \in {D - 1, D + 1}}
    \cup {[d \in 1 .. D |-> IF d = D THEN ShortDay ELSE Day(1, 0, 1)]}

Pref(n, d, type, shift) == [n |-> n, d |-> d, type |-> type, shift |-> shift]

PreferenceSets ==
    {<<>>,
     <<Pref(0, 0, "prefer", "M"), Pref(1, 0, "avoid", "N"), Pref(0, 1, "avoid", OFF)>>,
     <<Pref(0, 0, "prefer", OFF), Pref(0, 1, "want", "M"), Pref(1, 0, "prefer", "X"),
       Pref(7, 0, "prefer", "M")>>}

\* pc            where solve_nurse_rostering stands
\* num_nurses .. cfg   the arguments of the call
\* model_built   whether the CpModel of line 69 exists
\* objective     the expression given to model.Minimize
\* todo          the solver's agenda: the blocks of variables still without a
\*               value, each with the constraints it decides
\* val           the solver's values so far
\* status        what solver.Solve returned
\* oracle_calls  how many times solver.Solve was called
\* result        the SolveResult returned; error: the exception raised
\* schedule      the grid given to a direct call of validate_schedule
\* viol          the list that call returned
VARIABLES pc, num_nurses, num_days, demand, preferences, cfg,
          model_built, objective, todo, val, status, oracle_calls, result, error,
          schedule, viol

vars == <<pc, num_nurses, num_days, demand, preferences, cfg,
          model_built, objective, todo, val, status, oracle_calls, result, error,
          schedule, viol>>

model == <<model_built, objective>>

inputs == <<num_nurses, num_days, demand, preferences, cfg, schedule>>

Init ==
    /\ pc = "call"
    /\ num_nurses \in 1 .. MaxNurses
    /\ num_days \in 1 .. MaxDays
    /\ demand \in Demands(num_days)
    /\ preferences \in PreferenceSets
    /\ cfg \in Configs
    /\ model_built = FALSE
    /\ objective = <<>>
    /\ todo = <<>>
    /\ val = <<>>
    /\ status = None
    /\ oracle_calls = 0
    /\ result = None
    /\ error = None
    /\ schedule = <<>>
    /\ viol = <<>>

\* lines 54-67: malformed input raises before any model exists.
Reject ==
    /\ pc = "call"
    /\ InputError(num_nurses, num_days, demand, cfg) # None
    /\ error' = InputError(num_nurses, num_days, demand, cfg)
    /\ pc' = "raised"
    /\ UNCHANGED <<inputs, viol, model, todo, val, status, oracle_calls, result>>

\* lines 54-195: the model is built and handed to the solver.
Build ==
    /\ pc = "call"
    /\ InputError(num_nurses, num_days, demand, cfg) = None
    /\ LET m == BuildModel(num_nurses, num_days, demand, preferences, cfg) IN
          /\ model_built' = TRUE
          /\ objective' = m.obj
          /\ todo' = Agenda(SearchOrder(num_nurses, num_days, cfg.shifts, m.vars), m.cons)
    /\ pc' = "solving"
    /\ UNCHANGED <<inputs, viol, val, status, oracle_calls, result, error>>

\* Inside solver.Solve: the search gives the next block of variables values
\* of their domains that break no constraint whose variables all have values.
OracleAssign ==
    /\ pc = "solving"
    /\ todo # <<>>
    /\ \E f \in BlockValues(Head(todo).block) :
          /\ Satisfies(Head(todo).checks, val @@ f)
          /\ val' = val @@ f
    /\ todo' = Tail(todo)
    /\ UNCHANGED <<pc, inputs, viol, model, status, oracle_calls, result, error>>

\* line 197: Solve returns with a value for every variable.
OracleSolved ==
    /\ pc = "solving"
    /\ todo = <<>>
    /\ status' \in {"OPTIMAL", "FEASIBLE"}
    /\ oracle_calls' = oracle_calls + 1
    /\ pc' = "solved"
    /\ UNCHANGED <<inputs, viol, model, todo, val, result, error>>

\* line 197: Solve returns without a solution.  The caller reads only whether
\* the status is OPTIMAL or FEASIBLE, so either other status may come back.
OracleGivesUp ==
    /\ pc = "solving"
    /\ val = <<>>
    /\ status' \in {"INFEASIBLE", "UNKNOWN"}
    /\ oracle_calls' = oracle_calls + 1
    /\ pc' = "solved"
    /\ UNCHANGED <<inputs, viol, model, todo, val, result, error>>

\* lines 198-234: decode, validate, return the SolveResult.
Return ==
    /\ pc = "solved"
    /\ result' = SolveResult(status, val, objective, num_nurses, num_days, demand, cfg)
    /\ pc' = "returned"
    /\ UNCHANGED <<inputs, viol, model, todo, val, status, oracle_calls, error>>

Next == Reject \/ Build \/ OracleAssign \/ OracleSolved \/ OracleGivesUp \/ Return

Spec == Init /\ [][Next]_vars

\* ------------------------------------------- validate_schedule on its own
\* The validator is a public function: any grid over the four labels may be
\* handed to it, with any demand table of the grid's length.
Labels == {"M", "A", "N", OFF}

Schedules(N, D) == [1 .. N -> [1 .. D -> Labels]]

\* The demand a grid covers exactly.
DemandCovered(sched) ==
    [j \in 1 .. ColsOf(sched) |->
        Day(CountOf(sched, j - 1, "M"), CountOf(sched, j - 1, "A"), CountOf(sched, j - 1, "N"))]

ValDemands(sched) ==
    {DemandCovered(sched), [j \in 1 .. ColsOf(sched) |-> Day(1, 0, 1)]}

\* The default configuration (cap 5), smaller caps and the cap 0, with and
\* without the rest rule, and two whose shift set has no afternoon (label A
\* is then not an allowed symbol).
ValConfigs ==
    {Config(L, TRUE, 1, 3) : L \in {0, 1, 2, 5}}
      \cup {Config(L, FALSE, 0, 1) : L \in {1, 2}}
      \cup {[Config(2, TRUE, 1, 3) EXCEPT !.shifts = <<"M", "N">>],
            [Config(1, FALSE, 0, 1) EXCEPT !.shifts = <<"M", "N">>]}

ValInit ==
    /\ pc = "validate"
    /\ num_nurses \in 1 .. MaxValNurses
    /\ num_days \in 1 .. (MaxValCells \div num_nurses)
    /\ schedule \in Schedules(num_nurses, num_days)
    /\ demand \in ValDemands(schedule)
    /\ cfg \in ValConfigs
    /\ preferences = <<>>
    /\ model_built = FALSE
    /\ objective = <<>>
    /\ todo = <<>>
    /\ val = <<>>
    /\ status = None
    /\ oracle_calls = 0
    /\ result = None
    /\ error = None
    /\ viol = <<>>

\* lines 237-305
Validate ==
    /\ pc = "validate"
    /\ viol' = validate_schedule(schedule, demand, cfg)
    /\ pc' = "validated"
    /\ UNCHANGED <<inputs, model, todo, val, status, oracle_calls, result, error>>

ValNext == Validate

ValSpec == ValInit /\ [][ValNext]_vars

\* ================================================================ claims
Returned == pc = "returned"

Feasible == pc = "returned" /\ result.feasible

Shift(k) == cfg.shifts[k]

ShiftIndexes == 1 .. Len(cfg.shifts)

WorkedIn(sched, n, from, to) ==
    Cardinality({d \in from .. to : Cell(sched, n, d) # OFF})

\* C1: a result with feasible = True (a schedule decoded from values that
\* satisfy every hard constraint of the built model) carries an empty
\* violation list.
C1_RoundTrip == Feasible => result.violations = <<>>

C1_Witness ==
    /\ Feasible
    /\ result.violations = <<>>
    /\ num_nurses = 2
    /\ cfg.rest_after_night
    /\ cfg.max_consecutive_work_days = 2
    /\ num_days >= 3
    /\ \E n \in Range(num_nurses) : WorkedIn(result.schedule, n, 0, num_days - 1) = 2

\* C2: in a feasible result, for every day and configured shift the number of
\* nurses whose cell is that shift equals the demand exactly.
C2_ExactCoverage ==
    Feasible =>
        \A d \in Range(num_days) : \A k \in ShiftIndexes :
            CountOf(result.schedule, d, Shift(k)) = At(demand, d)[Shift(k)]

C2_Witness ==
    /\ Feasible
    /\ num_nurses = 2
    /\ \E d \in Range(num_days) :
          /\ CountOf(result.schedule, d, "M") = 1
          /\ CountOf(result.schedule, d, "A") = 1
          /\ At(demand, d) = Day(1, 1, 0)

\* C3: with rest_after_night enabled, in a feasible result a night on day d
\* is followed by OFF on day d+1.
C3_RestAfterNight ==
    (Feasible /\ cfg.rest_after_night) =>
        \A n \in Range(num_nurses) : \A d \in Range(num_days - 1) :
            Cell(result.schedule, n, d) = "N" => Cell(result.schedule, n, d + 1) = OFF

C3_Witness ==
    /\ Feasible
    /\ cfg.rest_after_night
    /\ \E n \in Range(num_nurses) : \E d \in Range(num_days - 1) :
          Cell(result.schedule, n, d) = "N" /\ Cell(result.schedule, n, d + 1) = OFF

WindowsWithin(L) ==
    \A n \in Range(num_nurses) : \A start \in 0 .. num_days - (L + 1) :
        WorkedIn(result.schedule, n, start, start + L) <= L

\* C4 as stated: for every cap L >= 0 and horizon D >= L+1, in a feasible
\* result every window of L+1 consecutive days holds at most L working days.
C4_Original ==
    LET L == cfg.max_consecutive_work_days IN
    (Feasible /\ L >= 0 /\ num_days >= L + 1) => WindowsWithin(L)

\* C4 amended: the same for every cap L >= 1 (a cap of 0 switches the rule
\* off and bounds nothing).
C4_MaxConsecutive ==
    LET L == cfg.max_consecutive_work_days IN
    (Feasible /\ L >= 1 /\ num_days >= L + 1) => WindowsWithin(L)

C4_Witness ==
    /\ Feasible
    /\ cfg.max_consecutive_work_days = 2
    /\ num_days = 3
    /\ \E n \in Range(num_nurses) : WorkedIn(result.schedule, n, 0, 2) = 2

\* The request is malformed: the demand table has the wrong number of days,
\* or one of its days lacks the entry of a configured shift.
Malformed ==
    \/ Len(demand) # num_days
    \/ \E j \in 1 .. Len(demand) : \E k \in ShiftIndexes : Shift(k) \notin DOMAIN demand[j]

\* C5: a malformed request raises an input error; no model is built, the
\* oracle is never called and no SolveResult is returned.
C5_MalformedRejected ==
    (Malformed /\ pc # "call") =>
        /\ pc = "raised"
        /\ error # None
        /\ ~model_built
        /\ todo = <<>>
        /\ oracle_calls = 0
        /\ status = None
        /\ result = None

C5_Witness ==
    /\ pc = "raised"
    /\ Len(demand) = num_days
    /\ \E j \in 1 .. Len(demand) : "A" \notin DOMAIN demand[j]

\* C6: for a well-formed request, a status other than OPTIMAL or FEASIBLE
\* ends in a normal return of feasible = False with no schedule, no objective
\* value and no violations; feasible = True carries an N x D schedule.
C6_NoFeasibleOutcome ==
    /\ (pc = "solved" /\ ~IsFeasible(status)) => (error = None /\ ENABLED Return)
    /\ (pc = "returned" /\ ~IsFeasible(status)) =>
          /\ error = None
          /\ result.feasible = FALSE
          /\ result.schedule = None
          /\ result.objective_value = None
          /\ result.violations = <<>>
    /\ Feasible =>
          /\ Len(result.schedule) = num_nurses
          /\ \A i \in 1 .. num_nurses : Len(result.schedule[i]) = num_days

C6_Witness == pc = "returned" /\ status = "INFEASIBLE" /\ result.feasible = FALSE

\* On some day the demand summed over the configured shifts exceeds the
\* number of nurses.
HeadcountExceeded ==
    \E d \in Range(num_days) :
        Sum([k \in ShiftIndexes |-> At(demand, d)[Shift(k)]]) > num_nurses

\* C7: when the demand of some day exceeds the headcount the oracle never
\* comes back with a solution, and the call returns feasible = False.
C7_HeadcountInfeasible ==
    (~Malformed /\ HeadcountExceeded) =>
        /\ pc \in {"solved", "returned"} => ~IsFeasible(status)
        /\ pc = "returned" => (result.feasible = FALSE /\ error = None)
        /\ pc # "raised"

C7_Witness ==
    /\ pc = "returned"
    /\ num_nurses = 2
    /\ \A d \in Range(num_days) : At(demand, d) = Day(2, 2, 1)
    /\ result.feasible = FALSE

\* The CONSEC violations the validator reported for nurse n.
ConsecOf(n) == SelectSeq(viol, LAMBDA v : v.kind = "CONSEC" /\ v.nurse = n)

\* The days on which nurse n completes L+1 working days in a row.
BreachDays(n, L) ==
    {d \in Range(num_days) :
        d >= L /\ \A k \in (d - L) .. d : Cell(schedule, n, k) # OFF}

\* C8: for a cap L > 0 the validator reports at most one CONSEC violation per
\* nurse, exactly one iff the nurse has more than L working days in a row,
\* and its day is the first day on which a run reaches L+1.
C8_ConsecReporting ==
    LET L == cfg.max_consecutive_work_days IN
    (pc = "validated" /\ L > 0) =>
        \A n \in Range(num_nurses) :
            /\ Len(ConsecOf(n)) <= 1
            /\ Len(ConsecOf(n)) = 1 <=> BreachDays(n, L) # {}
            /\ Len(ConsecOf(n)) = 1 => ConsecOf(n)[1].day = MinOf(BreachDays(n, L))

\* One nurse working 6 days in a row under the default cap of 5.
C8_Witness ==
    /\ pc = "validated"
    /\ cfg.max_consecutive_work_days = 5
    /\ num_nurses = 1
    /\ num_days = 6
    /\ \A d \in Range(num_days) : Cell(schedule, 0, d) # OFF
    /\ Len(SelectSeq(viol, LAMBDA v : v.kind = "CONSEC")) = 1
    /\ ConsecOf(0)[1].day = 5

\* An entry the objective counts: inside the grid, kind prefer or avoid,
\* shift a configured one or OFF.
Recognised(e) ==
    /\ e.n \in Range(num_nurses)
    /\ e.d \in Range(num_days)
    /\ e.type \in {"prefer", "avoid"}
    /\ e.shift = OFF \/ \E k \in ShiftIndexes : Shift(k) = e.shift

\* Whether the schedule earns the entry its penalty of 1.
Penalised(e, sched) ==
    LET cell == Cell(sched, e.n, e.d) IN
    IF e.type = "prefer" THEN cell # e.shift ELSE cell = e.shift

PenaltyCount(sched) ==
    Cardinality({i \in 1 .. Len(preferences) :
        Recognised(preferences[i]) /\ Penalised(preferences[i], sched)})

SpreadOf(totals) == MaxOf(totals) - MinOf(totals)

ExpectedObjective(sched) ==
    cfg.w_preference * PenaltyCount(sched)
      + cfg.w_balance
          * SpreadOf({WorkedIn(sched, n, 0, num_days - 1) : n \in Range(num_nurses)})
      + cfg.w_night_balance * SpreadOf({NightsOf(sched, n) : n \in Range(num_nurses)})

\* The search has fixed every x and work variable and stands before a
\* variable of the soft terms.
BeforeSoftVariable ==
    pc = "solving" /\ todo # <<>> /\ Head(todo).block[1].v[1] \notin {"x", "work"}

\* C9: the objective value of a feasible result is w_preference * P +
\* w_balance * work spread + w_night_balance * night spread, P counting the
\* recognised entries penalised by the schedule; entries of unrecognised kind
\* or shift count 0, and no soft term ever stops an assignment that satisfies
\* the hard constraints from being completed.
C9_ObjectiveComposition ==
    /\ Feasible => result.objective_value = ExpectedObjective(result.schedule)
    /\ BeforeSoftVariable => ENABLED OracleAssign

C9_Witness ==
    /\ Feasible
    /\ num_nurses = 2
    /\ Len(preferences) = 4
    /\ PenaltyCount(result.schedule) = 1
    /\ WorkedIn(result.schedule, 0, 0, num_days - 1)
         # WorkedIn(result.schedule, 1, 0, num_days - 1)
    /\ NightsOf(result.schedule, 0) # NightsOf(result.schedule, 1)
    /\ result.objective_value = 10 + 3 + 2

\* x(n,d,s) = 1 iff the cell is s, work(n,d) = 1 iff the cell is not OFF.
Encode(sched) ==
    [v \in {XVar(n, d, Shift(k)) : n \in Range(num_nurses), d \in Range(num_days),
                                    k \in ShiftIndexes}
          \cup {WorkVar(n, d) : n \in Range(num_nurses), d \in Range(num_days)} |->
        IF v[1] = "x"
        THEN IF Cell(sched, v[2], v[3]) = v[4] THEN 1 ELSE 0
        ELSE IF Cell(sched, v[2], v[3]) # OFF THEN 1 ELSE 0]

ModelFeasible(sched) ==
    Satisfies(HardConstraints(num_nurses, num_days, demand, cfg), Encode(sched))

\* C10: a grid the validator passes with an empty list satisfies, once
\* encoded, every hard constraint the builder states, and a grid it does not
\* pass breaks one: the validator accepts exactly the model-feasible grids.
C10_ValidatorNotWeaker ==
    pc = "validated" => (viol = <<>> <=> ModelFeasible(schedule))

C10_Witness ==
    /\ pc = "validated"
    /\ viol = <<>>
    /\ num_nurses = 2
    /\ num_days = 3
    /\ cfg.rest_after_night
    /\ cfg.max_consecutive_work_days = 2
    /\ Cell(schedule, 0, 0) = "N"
    /\ Cell(schedule, 0, 2) = "M"
    /\ Cell(schedule, 1, 1) = "A"
    /\ ModelFeasible(schedule)

====
